---- MODULE Spec2Model ----
(***************************************************************************)
(* Model of the name-normalisation engine, class Ds9cast of                *)
(* src/collect/clean-db-deep-space-nine.py.                                *)
(*                                                                         *)
(* Python strings are TLA+ strings; TLC evaluates Len, SubSeq and \o on    *)
(* them.  TLA+ strings are ASCII, so the three non-ASCII characters of the *)
(* tables are written with ASCII stand-ins that occur nowhere else:        *)
(*     a-umlaut (U+00E4) as {,  e-acute (U+00E9) as },                     *)
(*     right single quotation mark (U+2019) as ~.                          *)
(* CharOrder lists the characters in code point order of the characters    *)
(* they stand for.                                                         *)
(***************************************************************************)
EXTENDS Integers, Sequences, FiniteSets, TLC

NON_CAST == "non-cast"

\* Stands for the absent return value of a call that raised.
NoReturn == "<no return value>"

zap_dict ==
  << <<"(OC)", NON_CAST>>,
     <<"OC", NON_CAST>>,
     <<"Original Character", NON_CAST>> >>

delete_list ==
  <<
    " (Changeling)", " (implied/referenced)", " (nebulously one-sided)",
    " (past)", " (relevant)", " - Character", " - Relationship",
    " briefly mentioned", " is discussed", "(  )", "()", "(?)", "(ACoTaR)",
    "(Background)", "(DS9)", "(Deceased)", "(Deep Space Nine)", "(Implied",
    "(Implied)", "(Implied-Past)", "(Keiko mentioned)", "(Mentioned)",
    "(One-Sided)", "(Past)(Ro Laren mentioned)", "(ST DS9)",
    "(Star Trek DS9)", "(Star Trek Deep Space Nine)", "(Star Trek)",
    "(Star Trek: DS9)", "(Star Trek:DS9)", "(Trill symbiont)",
    "(alluded to)", "(alluded)", "(alternate)", "(appears via PADD)",
    "(background)", "(both)", "(briefly)", "(but not really though)",
    "(cameo)", "(exes)", "(flashbacks)", "(flashbacks)", "(hinted at)",
    "(holographic)", "(implied", "(implied/referenced)", "(in absentia)",
    "(looming presence) - Character", "(looming presence)", "(mention)",
    "(mentioned) past ", "(mentioned)", "(mentionned)", "(mentionn})",
    "(minor)", "(mirror)", "(multiple hosts)", "(not really)",
    "(ocs mentioned)", "(ofcs mentioned)", "(offscreen)",
    "(one night stand)", "(one scene)", "(one sided)",
    "(one-sided)(one-sided?)", "(past relationship)(pre relationship)",
    "(pre-relationship)", "(reference)", "(referenced)", "(relationship)",
    "(side)", "(tragic)", "(voice)", "- relationship", "A  mention of",
    "AU ", "Background ", "Changeling ", "Changeling!", "Dr.", "Former ",
    "If you squint ", "Implied ", "Light ", "Mentioned ",
    "Mentioned Past ", "Mentions of ", "Minor ", "Mirror ", "One-sided ",
    "Past ", "Slight", "Smuggler ", "The Idea of ", "background ", "cameo",
    "casual ", "fem!", "mentioned", "mentions of ", "mildly implied",
    "minor ", "one sided", "one-sided", "onesided", "past ",
    "possibly onesided", "pre ", "pre-", "side ", "slight"
  >>

known_set ==
  {
    "Aamin Marritza", "Admiral Whatley", "Agent Cole", "Akellen Macet",
    "Akorem Laan", "Alexander Rozhenko", "Alon Ghemor", "Altovar",
    "Aluura", "Alynna Nechayev", "Amaro", "Ambassador Lojal",
    "Amsha Bashir", "Arandis", "Arissa", "Arjin", "Athra Dukat",
    "Audrid Dax", "Baby Changeling", "Bandee", "Bareil Antos",
    "Barin Troi", "Barkan Lokar", "Basso Tromac", "Bejal Otner",
    "Benjamin Sisko", "Benteen", "Boday", "Boheeka", "Boq'ta", "Borath",
    "Broca", "Broik", "Brunt", "Buck Bokai", "Cal Hudson", "Captain Solok",
    "Ch'Targh", "Chalan Aroya", "Chester", "Cing'ta", "Corat Damar",
    "Corbin Entek", "Cox", "Curzon Dax", "Darhe'el", "Dax", "Dejar",
    "Deral", "Deyos", "Drex", "Dukat's Children", "Dukat's Mother",
    "Dulath", "Dulmur", "Ee'char", "Elias Vaughn", "Elim Garak",
    "Ellis Gareth", "Emergency Medical Hologram Mark II", "Emony Dax",
    "Enabran Tain", "Enina Tandro", "Entek", "Eris", "Erit", "Ezri Dax",
    "Fala Trentin", "Felix", "Female Changeling", "Furel", "Gaila",
    "Gariff Lucsly", "Gelnon", "Gilora Rejal", "Girani", "Glenon", "Gor",
    "Goran'Agar", "Gowron", "Grilka", "Grimp", "Gul Jasad", "Gul Marratt",
    "Gul Revok", "Gul Rusot", "Gul Russol", "Gul Zarale", "Hagath",
    "Hanok", "Hanor Pren", "Ikat'ika", "Iliana Ghemor", "Iloja of Prim",
    "Ishka", "Jabara", "Jack", "Jadzia Dax", "Jake Sisko", "Janel Tigan",
    "Jaro Essa", "Jas Holza", "Jennifer Sisko", "Joran Dax",
    "Joseph Sisko", "Judith Sisko", "Julian Bashir", "K'Ehleyr", "Kabo",
    "Kaga", "Kai Winn", "Kalandra", "Kalita", "Kang", "Karen Loews",
    "Kasidy Yates", "Keevan", "Keiko O~Brien", "Kel Lokar", "Kela Idaris",
    "Kelas Parmak", "Keldar", "Kesha", "Kilana", "Kimara Cretak",
    "Kira Meru", "Kira Nerys", "Kira Pohl", "Kira Reon", "Kira Taban",
    "Kirayoshi O'Brien", "Koloth", "Kor", "Kotan Pa'Dar", "Koval",
    "Kukalaka", "Kurn", "Laas", "Laira", "Lauren", "Leeta", "Legate Kell",
    "Lela Dax", "Lenara Kahn", "Letant", "Lewis Zimmerman", "Leyton",
    "Li Nalas", "Lieutenant Watley", "Lisa Cusak", "Lorit Akrem", "Luaran",
    "Lupaza", "Lursa", "Luther Sloan", "Lwaxana Troi", "Lysia Arlin",
    "M'Pella", "Maihar'du", "Mardah", "Mareel", "Martok", "Mavek",
    "Mekor Dukat", "Melora Pazlar", "Meya Rejal", "Michael Eddington",
    "Mila Garak", "Miles O'Brien", "Molly O'Brien", "Mora Pol", "Morn",
    "Mullibok", "Nal Dejar", "Nareeya", "Natima Lang", "Neral",
    "Niala Damar", "Nilani Kahn", "Nilva", "Nog", "Norvo Tigan", "N~garen",
    "Odo", "Omet'iklan", "Onara", "Opaka", "Ornak", "Palandine",
    "Palis Delon", "Parn", "Patrick", "Pel", "Prinadora", "Procal Dukat",
    "Pythas Lok", "Q", "Quark", "Raymer", "Rebecca Sisko",
    "Rebecca Sullivan", "Reese", "Remata'Klan", "Renhol", "Richard Bashir",
    "Rionoj", "Rom", "Rotan'talag", "Rugal Pa'Dar", "Sakal Damar",
    "Sarah Sisko", "Sarina Douglas", "Shakaar Edon", "Sirella",
    "Skrain Dukat", "Solbor", "T'Rul", "Tagana", "Tahna Los", "Tamal",
    "Taran'atar", "Tekeny Ghemor", "Telnorri", "Thomas Riker", "Thrax",
    "Tobin Dax", "Tora Naprem", "Tora Ziyal", "Torias Dax", "Trevean",
    "Vaatrik Pallra", "Vance", "Vash", "Vedek Nane", "Verad",
    "Vic Fontaine", "Vilix'pran", "Vreenak", "Weyoun", "William Ross",
    "Winn Adami", "Worf", "Wykoff", "Yanas Tigan", "Yareth", "Yedrin Dax",
    "Yelgrun", "Zarale", "Zek", "Ziranne Idaris"
  }

synonym_pairs ==
  {
    <<"Athra Dukat's wife", "Athra Dukat">>,
    <<"Benjamin Sisko's Authoritative Voice", "Benjamin Sisko">>,
    <<"Ch~targh", "Ch'Targh">>, <<"Clone!Miles O'Brien", "Miles O'Brien">>,
    <<"C{pt'n Sisko", "Benjamin Sisko">>, <<"Damar's Son", "Sakal Damar">>,
    <<"Damar's Wife", "Niala Damar">>,
    <<"Dukat's Father | Procal Dukat", "Procal Dukat">>,
    <<"Dukat's Wife | Athra Dukat", "Athra Dukat">>,
    <<"Dukat's ex Wife | Athra Dukat", "Athra Dukat">>,
    <<"Dukat's kids", "Dukat's Children">>,
    <<"Dukat's wife", "Athra Dukat's wife">>,
    <<"Enabran Tain's ghost", "Enabran Tain">>,
    <<"Ezri Dax's Far Beyond the Stars Universe Character", "Ezri Dax">>,
    <<"Ikat'ika | Jem'Hadar First", "Ikat'ika">>,
    <<"Keiko O' Brien ()", "Keiko O'Brien">>,
    <<"Keiko O' Brien", "Keiko O~Brien">>,
    <<"Keiko O'Brien", "Keiko O'Brien">>,
    <<"Keiko o'brien", "Keiko O~Brien">>,
    <<"Keyko O'Brien", "Keiko O~Brien">>,
    <<"Mentioning's of Dukat's Wife", "Athra Dukat">>,
    <<"Mile O'Brien (One sided)", "Miles O'Brien">>,
    <<"Miles O'Brian", "Miles O~Brien">>,
    <<"Miles O'Brien ()", "Miles O'Brien">>,
    <<"Miles O'Brien (friendship)", "Miles O'Brien">>,
    <<"Miles O'Brien by mention only", "Miles O'Brien">>,
    <<"Miles O'Brien's voice", "Miles O'Brien">>,
    <<"Miles O~Brien", "Miles O'Brien">>,
    <<"Mirror Miles O'Brien", "Miles O'Brien">>,
    <<"O'Brien", "Miles O'Brien">>, <<"Odo'Ital", "Odo">>,
    <<"Odo~iTal", "Odo">>,
    <<"Quark (in the back of Quark's mind)", "Quark">>,
    <<"Quark's Mother", "Ishka">>, <<"Remata 'Klan", "Remata'Klan">>,
    <<"Smiley O'brien", "Miles O'Brien">>,
    <<"Sub-Commander T'Rul", "T'Rul">>,
    <<"Tschief O'Brien", "Miles O'Brien">>,
    <<"dukat's children", "Dukat's Children">>,
    <<"mention o'brian", "Miles O'Brien">>,
    <<"miles O'Brien", "Miles O'Brien">>,
    <<"miles o'brien", "Miles O'Brien">>,
    <<"sort of dukat but really he's just around to be murdered", "Skrain Dukat">>,
    <<" Kasidy Yates", "Kasidy Yates">>,
    <<"(the idea of) Elim Garak", "Elim Garak">>,
    <<"-Bashir", "Julian Bashir">>,
    <<"A  mention of Julian Bashir", "Julian Bashir">>,
    <<"Admiral Nechayev (Star Trek)", "Alynna Nechayev">>,
    <<"Admiral Ross", "William Ross">>,
    <<"Agent Cole (Star Trek)", "Agent Cole">>,
    <<"Agent Julian Bashir of MI6", "Julian Bashir">>,
    <<"Alexander", "Alexander Rozhenko">>, <<"Alternate Odo", "Odo">>,
    <<"Alternate Timeline Odo (Children Of Time)", "Odo">>,
    <<"Altovar (Star Trek)", "Altovar">>,
    <<"Altovar (reference)", "Altovar">>, <<"Amaro (Star Trek)", "Amaro">>,
    <<"Ambassador Worf", "Worf">>, <<"Anastasia Komananov", "Kira Nerys">>,
    <<"Anjohl Tennan", "Skrain Dukat">>,
    <<"Arandis (Star Trek)", "Arandis">>,
    <<"Arissa (Star Trek)", "Arissa">>, <<"Arjin (Star Trek)", "Arjin">>,
    <<"Bareil", "Bareil Antos">>, <<"Bariel", "Bareil Antos">>,
    <<"Barin", "Barin Troi">>, <<"Barkan", "Barkan Lokar">>,
    <<"Bashir", "Julian Bashir">>, <<"Ben Sisko", "Benjamin Sisko">>,
    <<"Ben", "Benjamin Sisko">>, <<"Benjamin", "Benjamin Sisko">>,
    <<"Benjamine Sisko", "Benjamin Sisko">>,
    <<"Benny Russell", "Benjamin Sisko">>,
    <<"Bi Julian Bashir", "Julian Bashir">>,
    <<"Calvin Hudson", "Cal Hudson">>,
    <<"Captain Bashir", "Julian Bashir">>,
    <<"Captain Benteen", "Benteen">>, <<"Captain Boday", "Boday">>,
    <<"Captain Cusak", "Lisa Cusak">>,
    <<"Captain Julian Bashir", "Julian Bashir">>,
    <<"Captain Raymer", "Raymer">>, <<"Captain Sisko", "Benjamin Sisko">>,
    <<"Captain Solok", "Captain Solok">>,
    <<"Chalon Aroya", "Chalan Aroya">>, <<"Chancellor Martok", "Martok">>,
    <<"Changeling Julian Bashir", "Julian Bashir">>,
    <<"Chester the Cat", "Chester">>, <<"Commander Hudson", "Cal Hudson">>,
    <<"Commander Sisko", "Benjamin Sisko">>, <<"Constable Odo", "Odo">>,
    <<"Constable Quark", "Quark">>, <<"Const{bbel Odo", "Odo">>,
    <<"Counselor Telnorri", "Telnorri">>, <<"Cousin Gaila", "Gaila">>,
    <<"Curson", "Curzon Dax">>, <<"Curzon", "Curzon Dax">>,
    <<"DR cox-", "Cox">>, <<"Damar", "Corat Damar">>,
    <<"Darlene Kursky", "Jadzia Dax">>, <<"Dax (Trill symbiot)", "Dax">>,
    <<"Dax Symbiont", "Dax">>, <<"Dax symbiont", "Dax">>,
    <<"Doctor Girani", "Girani">>,
    <<"Doctor Julian Bashir", "Julian Bashir">>,
    <<"Doctor Lenara Kahn", "Lenara Kahn">>,
    <<"Doctor Mora Pol", "Mora Pol">>, <<"Doctor Mora", "Mora Pol">>,
    <<"Dr Bashir", "Julian Bashir">>, <<"Dr. Cox", "Cox">>,
    <<"Dr. Girani", "Girani">>,
    <<"Dr. Hippocrates Noah", "Benjamin Sisko">>,
    <<"Dr. Kalandra", "Kalandra">>, <<"Dr. Karen Loews", "Karen Loews">>,
    <<"Dr. Lewis Zimmerman", "Lewis Zimmerman">>,
    <<"Dr. Mora Pel", "Mora Pol">>, <<"Dr. Mora", "Mora Pol">>,
    <<"Dr. Noah", "Benjamin Sisko">>, <<"Dr. Wykoff", "Wykoff">>,
    <<"Dr.Cox", "Cox">>, <<"Dragon!Garak", "Elim Garak">>,
    <<"Dukat (Star Trek)", "Skrain Dukat">>,
    <<"Dukat (implied", "Skrain Dukat">>, <<"Dukat", "Skrain Dukat">>,
    <<"Dukats wife", "Athra Dukat">>,
    <<"EMH Julian Bashir", "Emergency Medical Hologram Mark II">>,
    <<"Edon Shaakar", "Shaakar Edon">>, <<"Eim Garak", "Elim Garak">>,
    <<"Elim Garrik", "Elim Garak">>,
    <<"Enabran Tain (reference)", "Enabran Tain">>,
    <<"Enabran Tain and non-canon characters", "Enabran Tain">>,
    <<"Eomony Dax", "Emony Dax">>, <<"Ezri Tigan", "Ezri Dax">>,
    <<"Ezri", "Ezri Dax">>, <<"FOC", "non-cast">>,
    <<"Fake Bashir", "Julian Bashir">>, <<"Falcon", "Miles O'Brien">>,
    <<"Fem!Gul Zarale", "Gul Zarale">>, <<"Fem!Li Nalas", "Li Nalas">>,
    <<"Female Founder", "Female Changeling">>, <<"Future Odo", "Odo">>,
    <<"Future Quark", "Quark">>, <<"Gabriel Bell", "Benjamin Sisko">>,
    <<"Gaia Odo", "Odo">>, <<"Garak (relationship)", "Elim Garak">>,
    <<"Garak is only", "Elim Garak">>, <<"Garak", "Elim Garak">>,
    <<"General Martok", "Martok">>, <<"Glinn Damar", "Corat Damar">>,
    <<"Grand Nagus Rom", "Rom">>, <<"Guhl Dukat", "Skrain Dukat">>,
    <<"Gul Damar", "Corat Damar">>, <<"Gul Dukat", "Skrain Dukat">>,
    <<"Gul Parn", "Parn">>, <<"Gul Zarale but girl", "Zarale">>,
    <<"High Nagus Rom", "Rom">>, <<"Hippocrates Noah", "Benjamin Sisko">>,
    <<"Honey Bare", "Jadzia Dax">>, <<"Human!Garak", "Elim Garak">>,
    <<"Iliana", "Iliana Ghemor">>, <<"Illiana Ghemor", "Iliana Ghemor">>,
    <<"Iloja of Prime", "Iloja of Prim">>, <<"Iloja", "Iloja of Prim">>,
    <<"Imaginary Elim Garak", "Elim Garak">>,
    <<"Infant Changeling", "Baby Changeling">>,
    <<"Intendant", "Kira Nerys">>, <<"Jadzea Dax", "Jadzia Dax">>,
    <<"Jadzia Daz", "Jadzia Dax">>, <<"Jadzia Idaris", "Jadzia Dax">>,
    <<"Jadzia briefly", "Jadzia Dax">>,
    <<"Jadzia is  literally one time", "Jadzia Dax">>,
    <<"Jadzia", "Jadzia Dax">>, <<"Jake", "Jake Sisko">>,
    <<"Jasad", "Gul Jasad">>, <<"Jennifer", "Jennifer Sisko">>,
    <<"Joran Dax (memories)", "Joran Dax">>,
    <<"Juilan Bashir", "Julian Bashir">>,
    <<"Julain Bashir", "Julian Bashir">>,
    <<"Julan Bashir", "Julian Bashir">>,
    <<"Jules Bashir", "Julian Bashir">>,
    <<"Julian Bashier", "Julian Bashir">>,
    <<"Julian Bashir (2371)", "Julian Bashir">>,
    <<"Julian Bashir (Just for plot convenience)", "Julian Bashir">>,
    <<"Julian Bashir (comatose)", "Julian Bashir">>,
    <<"Julian Bashir EMH", "Emergency Medical Hologram Mark II">>,
    <<"Julian Bashir and Mirror-Bashir", "Julian Bashir">>,
    <<"Julian Bashri", "Julian Bashir">>,
    <<"Julian bashir", "Julian Bashir">>, <<"Julian", "Julian Bashir">>,
    <<"Julius Eaton", "Julian Bashir">>, <<"Kahn", "Lenara Kahn">>,
    <<"Kai Opaka", "Opaka">>, <<"Kasidy Yates-Sisko", "Kasidy Yates">>,
    <<"Kasidy", "Kasidy Yates">>, <<"Kassidy Yates", "Kasidy Yates">>,
    <<"Kay Eaton", "Kira Nerys">>, <<"Keevan 2", "Keevan">>,
    <<"Keiko", "Keiko O~Brien">>, <<"Kia Winn", "Winn Adami">>,
    <<"Kira Nerys ()", "Kira Nerys">>, <<"Kira Neyrs", "Kira Nerys">>,
    <<"Kira", "Kira Nerys">>, <<"Kiry Nerys", "Kira Nerys">>,
    <<"Klingon Chef", "Kaga">>, <<"Komahnder Worf", "Worf">>,
    <<"Kukalaka (Stark Trek)", "Kukalaka">>, <<"Leela Dax", "Lela Dax">>,
    <<"Leeta (Leeta )", "Leeta">>, <<"Legate Damar", "Corat Damar">>,
    <<"Lenara Kahn but its just  in passing", "Lenara Kahn">>,
    <<"Li Nalas but girl", "Li Nalas">>,
    <<"Lieutenant Commander Jadzia Dax", "Jadzia Dax">>,
    <<"Lupasa", "Lupaza">>, <<"Lwaxana", "Lwaxana Troi">>,
    <<"MOC", "non-cast">>, <<"Major Kira", "Kira Nerys">>,
    <<"Martok (emails)", "Martok">>, <<"Mavik", "Mavek">>,
    <<"Meru", "Kira Meru">>, <<"Miles Obrien", "Miles O'Brien">>,
    <<"Miles", "Miles O'Brien">>, <<"Minor rom", "non-cast">>,
    <<"Mirror Bariel Antos", "Bariel Antos">>,
    <<"Mirror Benjamin Sisko", "Benjamin Sisko">>,
    <<"Mirror Brunt", "Brunt">>, <<"Mirror Elim Garak", "Elim Garak">>,
    <<"Mirror Jadzia Dax", "Jadzia Dax">>,
    <<"Mirror Julian Bashir", "Julian Bashir">>,
    <<"Mirror Kira Nerys", "Kira Nerys">>, <<"Mirror Odo", "Odo">>,
    <<"Mirror Quark", "Quark">>, <<"Mirror Worf", "Work">>,
    <<"Mirror-Bashir", "Julian Bashir">>,
    <<"Molly (DS9: Children of Time)", "Molly O'Brien">>,
    <<"Molly O~Brien", "Molly O'Brien">>, <<"Molly", "Molly O'Brien">>,
    <<"Mora Pel", "Mora Pol">>, <<"Mora", "Mora Pol">>,
    <<"Morn only has a cameo fitting of his character", "Morn">>,
    <<"M{ytscher Kira", "Kira Nerys">>, <<"Nagus Rom", "Rom">>,
    <<"Naprem", "Tora Naprem">>, <<"Natima", "Natima Lang">>,
    <<"Nerys", "Kira Nerys">>, <<"Noah", "Benjamin Sisko">>,
    <<"Nurse Jabara", "Jabara">>, <<"OC", "non-cast">>,
    <<"OFC", "non-cast">>, <<"OMC", "non-cast">>, <<"Odo ()", "Odo">>,
    <<"Odo Ital", "Odo">>, <<"Odo Mentioned", "Odo">>,
    <<"Odo relationship", "Odo">>, <<"Oldo", "Odo">>,
    <<"One-Sided Julian Bashir", "Julian Bashir">>,
    <<"Onesided Pythas Lok", "Pythas Lok">>, <<"Opaka Sulan", "Opaka">>,
    <<"Original Bajoran Character", "non-cast">>,
    <<"Original Bajoran Female Character", "non-cast">>,
    <<"Original Bajoran Male Character", "non-cast">>,
    <<"Original Cardassian Character", "non-cast">>,
    <<"Original Character(s)", "non-cast">>,
    <<"Original Female Character", "non-cast">>,
    <<"Original Female Character(s)", "non-cast">>,
    <<"Original Male Character", "non-cast">>,
    <<"Original Male Character(s)", "non-cast">>,
    <<"Other(s)", "non-cast">>, <<"Others", "non-cast">>,
    <<"Owner of the Klingon Restaurant", "Kaga">>,
    <<"Pel (Star Trek: Deep Space Nine)", "Pel">>,
    <<"Pel (past... possibly future?)", "Pel">>,
    <<"Possible Dukat", "Skrain Dukat">>,
    <<"Prophet Damar", "Corat Damar">>,
    <<"Prophet Dukat", "Skrain Dukat">>, <<"Prophet Odo", "Odo">>,
    <<"Quar", "Quark">>, <<"Quark (  )", "Quark">>,
    <<"Quark ()", "Quark">>, <<"Quark (?)", "Quark">>,
    <<"Quark (Star Trek)", "Quark">>, <<"Quark (in a sense)", "Quark">>,
    <<"Quark (in spirit)", "Quark">>,
    <<"Quark (you can feel his spirit lingering there)", "Quark">>,
    <<"Quark Math Program", "Quark">>, <<"Quark flirting", "Quark">>,
    <<"Reader", "non-cast">>,
    <<"Reese (Deep Space Nine The Siege of AR-558)", "Reese">>,
    <<"Rugal", "Rugal Pa'Dar">>, <<"Rusot", "Gul Rusot">>,
    <<"Shaakar Edon", "Shakaar Edon">>, <<"Shakaar", "Shakaar Edon">>,
    <<"Sisco", "Benjamin Sisko">>, <<"Sisko ( )", "Benjamin Sisko">>,
    <<"Sisko the Emissary", "Benjamin Sisko">>,
    <<"Sisko", "Benjamin Sisko">>, <<"Sloan", "Luther Sloan">>,
    <<"Sloane", "Luther Sloan">>, <<"Smuggler Odo", "Odo">>,
    <<"Tain", "Enabran Tain">>, <<"Tentacle Monster", "non-cast">>,
    <<"The Diabolical Mr. Garak", "Elim Garak">>,
    <<"The Emissary", "Benjamin Sisko">>,
    <<"The Female Changeling", "Female Changeling">>,
    <<"The Female Founder", "Female Changeling">>,
    <<"The Grand Nagus", "Zek">>, <<"The Intendant", "Kira Nerys">>,
    <<"Tora Ziyal (One-Sided)", "Tora Ziyal">>,
    <<"Tora Ziyal (one night stand)", "Tora Ziyal">>,
    <<"Tora Ziyal (only)", "Tora Ziyal">>,
    <<"Torah Naprem", "Tora Naprem">>, <<"Toran", "Tora Naprem">>,
    <<"Tschatzia D{cks", "Jadzia Dax">>,
    <<"Tschulien B{schier", "Julian Bashir">>,
    <<"Vampire!Garak", "Elim Garak">>,
    <<"Vampire!Julian", "Julian Bashir">>,
    <<"Vedek Antos Bareil", "Bareil Antos">>,
    <<"Vedek Bariel", "Bariel Antos">>, <<"Vedik Bariel", "Bariel Antos">>,
    <<"Verad Dax", "Verad">>, <<"Weyoun 1", "Weyoun">>,
    <<"Weyoun 10", "Weyoun">>, <<"Weyoun 2", "Weyoun">>,
    <<"Weyoun 3", "Weyoun">>, <<"Weyoun 4", "Weyoun">>,
    <<"Weyoun 5", "Weyoun">>, <<"Weyoun 6", "Weyoun">>,
    <<"Weyoun 7", "Weyoun">>, <<"Weyoun 8", "Weyoun">>,
    <<"Weyoun 9", "Weyoun">>, <<"Weyoun Seven", "Weyoun">>,
    <<"Weyoun6", "Weyoun">>, <<"Weyoun7", "Weyoun">>,
    <<"Winn", "Winn Adami">>, <<"Worf (In Spirit)", "Worf">>,
    <<"Worf (Star Trek: TNG", "Worf">>, <<"Worf (Star Trek:TNG", "Worf">>,
    <<"Worf (Star Trek:TNG/DS9)", "Worf">>,
    <<"Worf (short apparition)", "Worf">>, <<"Work", "Worf">>,
    <<"Yates", "Kasidy Yates">>, <<"You", "non-cast">>,
    <<"Zarale", "Gul Zarale">>, <<"Ziyal", "Tora Ziyal">>,
    <<"benjamin sisko", "Benjamin Sisko">>,
    <<"brief mirror!opaka", "Opaka">>, <<"dragon!Dukat", "Skrain Dukat">>,
    <<"elim garak", "Elim Garak">>, <<"female characters", "non-cast">>,
    <<"female founder", "Female Changeling">>, <<"female", "non-cast">>,
    <<"his wife", "non-cast">>, <<"implied Bashir", "Julian Bashir">>,
    <<"implied Elim Garak", "Elim Garak">>,
    <<"implied Jadzia Dax", "Jadzia Dax">>,
    <<"implied Jadzia", "Jadzia Dax">>,
    <<"implied Julian Bashir", "Julian Bashir">>,
    <<"intendent kira", "Kira Nerys">>, <<"jadzia dax", "Jadzia Dax">>,
    <<"julian bashir", "Julian Bashir">>,
    <<"just Garak really", "Elim Garak">>,
    <<"kelas parmak", "Kelas Parmak">>, <<"kilana", "Kilana">>,
    <<"kira nerys", "Kira Nerys">>, <<"kukkalakka", "Kukalaka">>,
    <<"male", "non-cast">>, <<"menion of Rom", "Rom">>,
    <<"mention odo", "Odo">>,
    <<"mention of Julian Bashir", "Julian Bashir">>,
    <<"mirror Jack", "Jack">>, <<"mirror Sloan", "Luther Sloan">>,
    <<"mirror!winn because i have A Problem", "Winn Adami">>,
    <<"morn", "Morn">>, <<"neurodivergent Julian", "Julian Bashir">>,
    <<"odo solid", "Odo">>, <<"odo", "Odo">>,
    <<"other females", "non-cast">>, <<"other males", "non-cast">>,
    <<"possibly  Julian", "Julian Bashir">>,
    <<"pregnant Julian Bashir", "Julian Bashir">>,
    <<"technically Keiko Ishikawa", "Keiko O'Brien">>,
    <<"the (figurative) ghost of Jennifer Sisko", "Jennifer Sisko">>,
    <<"two-sided Julian Bashir", "Julian Bashir">>,
    <<"unknown character", "non-cast">>,
    <<"unknown female character", "non-cast">>,
    <<"unknown male character", "non-cast">>,
    <<"various ocs", "non-cast">>, <<"various ofcs", "non-cast">>,
    <<"vedek bariel", "Bariel Antos">>, <<"weyoun 6", "Weyoun">>,
    <<"weyoun", "Weyoun">>, <<"with a dash of Garak", "Elim Garak">>,
    <<"with a guest appearance by Elim Garak", "Elim Garak">>,
    <<"zek", "Zek">>
  }

(***************************************************************************)
(* Python string primitives used by Ds9cast.                               *)
(***************************************************************************)

\* Characters in ascending code point order (str comparison, list.sort()).
CharOrder ==
  "\t\n\f\r !&'()-./0123456789:?ABCDEFGHIJKLMNOPQRSTUVWXYZabcdefghijklmnopqrstuvwxyz|{}~"

\* Characters removed by str.strip() with no argument: the whitespace
\* characters that a TLA+ string can hold.
WhiteSpace == {" ", "\t", "\n", "\f", "\r"}

Char(s, i) == SubSeq(s, i, i)

\* ord(c): position of the one-character string c in code point order.
Ord(c) == CHOOSE i \in 1..Len(CharOrder) : Char(CharOrder, i) = c

\* s < t for str: lexicographic on code points, a proper prefix is smaller.
RECURSIVE StrLess(_, _)
StrLess(s, t) ==
  IF Len(t) = 0 THEN FALSE
  ELSE IF Len(s) = 0 THEN TRUE
  ELSE IF Char(s, 1) = Char(t, 1)
       THEN StrLess(SubSeq(s, 2, Len(s)), SubSeq(t, 2, Len(t)))
       ELSE Ord(Char(s, 1)) < Ord(Char(t, 1))

\* sub in text
Contains(text, sub) ==
  \E i \in 1..(Len(text) - Len(sub) + 1) : SubSeq(text, i, i + Len(sub) - 1) = sub

\* text.replace(d, ''): every non-overlapping occurrence of d, left to right.
RECURSIVE replace(_, _)
replace(text, d) ==
  IF Len(text) < Len(d) THEN text
  ELSE IF SubSeq(text, 1, Len(d)) = d
       THEN replace(SubSeq(text, Len(d) + 1, Len(text)), d)
       ELSE Char(text, 1) \o replace(SubSeq(text, 2, Len(text)), d)

\* text.strip()
RECURSIVE lstrip(_)
lstrip(text) ==
  IF Len(text) > 0 /\ Char(text, 1) \in WhiteSpace
  THEN lstrip(SubSeq(text, 2, Len(text)))
  ELSE text

RECURSIVE rstrip(_)
rstrip(text) ==
  IF Len(text) > 0 /\ Char(text, Len(text)) \in WhiteSpace
  THEN rstrip(SubSeq(text, 1, Len(text) - 1))
  ELSE text

strip(text) == rstrip(lstrip(text))

\* list(s) for a set s: its members in some order.
RECURSIVE list(_)
list(s) ==
  IF s = {} THEN << >>
  ELSE LET x == CHOOSE y \in s : TRUE
       IN  <<x>> \o list(s \ {x})

\* l.sort() for a list of str: ascending, equal elements kept.
RECURSIVE insert(_, _)
insert(x, l) ==
  IF Len(l) = 0 THEN <<x>>
  ELSE IF StrLess(Head(l), x)
       THEN <<Head(l)>> \o insert(x, Tail(l))
       ELSE <<x>> \o l

RECURSIVE sort(_)
sort(l) == IF Len(l) = 0 THEN << >> ELSE insert(Head(l), sort(Tail(l)))

\* re.split('[/&]', pair): the pieces between the operator characters.
RECURSIVE re_split(_, _)
re_split(pair, piece) ==
  IF Len(pair) = 0 THEN <<piece>>
  ELSE IF Char(pair, 1) \in {"/", "&"}
       THEN <<piece>> \o re_split(SubSeq(pair, 2, Len(pair)), "")
       ELSE re_split(SubSeq(pair, 2, Len(pair)), piece \o Char(pair, 1))

(***************************************************************************)
(* class Ds9cast                                                           *)
(***************************************************************************)

\* The dict with the given <<key, value>> items.
dict_of(items) ==
  [k \in {p[1] : p \in items} |-> (CHOOSE p \in items : p[1] = k)[2]]

\* Variant: the table also maps 'Gul Zarale' back to 'Zarale'.
synonym_dict_cycle == dict_of(synonym_pairs \cup {<<"Gul Zarale", "Zarale">>})

\* Ds9cast.synonym_dict
synonym_dict == dict_of(synonym_pairs)

\* Variant: the loop goes on after a hit, the last phrase found wins.
zap_match_last(text) ==
  IF \E i \in 1..Len(zap_dict) : Contains(text, zap_dict[i][1])
  THEN CHOOSE i \in 1..Len(zap_dict) :
         /\ Contains(text, zap_dict[i][1])
         /\ \A j \in (i + 1)..Len(zap_dict) : ~Contains(text, zap_dict[j][1])
  ELSE 0

\* for s in self.zap_dict: if s in text: return self.zap_dict[s]
\* Index of the first phrase of zap_dict found in text, 0 when there is none.
zap_match(text) ==
  IF \E i \in 1..Len(zap_dict) : Contains(text, zap_dict[i][1])
  THEN CHOOSE i \in 1..Len(zap_dict) :
         /\ Contains(text, zap_dict[i][1])
         /\ \A j \in 1..(i - 1) : ~Contains(text, zap_dict[j][1])
  ELSE 0

\* for d in self.delete_list: text = text.replace(d, ''); text = text.strip()
\* delete_loop[text, lo, hi] is text after the iterations for
\* delete_list[lo], ..., delete_list[hi], in that order.  The iterations are
\* composed by halves, which keeps the evaluation depth logarithmic.
delete_loop[text \in STRING, lo \in 1..Len(delete_list), hi \in 1..Len(delete_list)] ==
  IF lo = hi
  THEN strip(replace(text, delete_list[lo]))
  ELSE LET mid == (lo + hi) \div 2
       IN  delete_loop[delete_loop[text, lo, mid], mid + 1, hi]

\* d[k] for a dict d: the value, or KeyError when k is not a key.
getitem(d, k) ==
  IF k \in DOMAIN d THEN [exc |-> "none", val |-> d[k]]
  ELSE [exc |-> "KeyError", val |-> NoReturn]

\* Variant: the lookup without the membership test.
synonym_lookup_unguarded(text) == getitem(synonym_dict, text)

\* if text in self.synonym_dict: text = self.synonym_dict[text]
synonym_lookup(text) ==
  IF text \in DOMAIN synonym_dict
  THEN getitem(synonym_dict, text)
  ELSE [exc |-> "none", val |-> text]

\* Variant: the unseen name is recorded but not replaced by NON_CAST.
normal_name_known_keeps_text(unseen, s) ==
  IF s.exc # "none"
  THEN [ret |-> NoReturn, unseen_set |-> unseen, exc |-> s.exc]
  ELSE IF s.val \notin known_set
  THEN [ret |-> s.val, unseen_set |-> unseen \cup {s.val}, exc |-> "none"]
  ELSE [ret |-> s.val, unseen_set |-> unseen, exc |-> "none"]

\* Variant: self.unseen_set.add(text) stands before the known_set test.
normal_name_known_records_all(unseen, s) ==
  IF s.exc # "none"
  THEN [ret |-> NoReturn, unseen_set |-> unseen, exc |-> s.exc]
  ELSE IF s.val \notin known_set
  THEN [ret |-> NON_CAST, unseen_set |-> unseen \cup {s.val}, exc |-> "none"]
  ELSE [ret |-> s.val, unseen_set |-> unseen \cup {s.val}, exc |-> "none"]

\* Variant: only the first unseen name of an engine is recorded
\* (self.unseen_set = self.unseen_set or {text}).
normal_name_known_first_only(unseen, s) ==
  IF s.exc # "none"
  THEN [ret |-> NoReturn, unseen_set |-> unseen, exc |-> s.exc]
  ELSE IF s.val \notin known_set
  THEN [ret |-> NON_CAST,
        unseen_set |-> IF unseen = {} THEN {s.val} ELSE unseen,
        exc |-> "none"]
  ELSE [ret |-> s.val, unseen_set |-> unseen, exc |-> "none"]

\* Variant: a name met before is neither recorded again nor replaced
\* (if not text in self.known_set and not text in self.unseen_set).
normal_name_known_seen_kept(unseen, s) ==
  IF s.exc # "none"
  THEN [ret |-> NoReturn, unseen_set |-> unseen, exc |-> s.exc]
  ELSE IF s.val \notin known_set /\ s.val \notin unseen
  THEN [ret |-> NON_CAST, unseen_set |-> unseen \cup {s.val}, exc |-> "none"]
  ELSE [ret |-> s.val, unseen_set |-> unseen, exc |-> "none"]

\* Variant: self.unseen_set = {text} in place of self.unseen_set.add(text).
normal_name_known_last_only(unseen, s) ==
  IF s.exc # "none"
  THEN [ret |-> NoReturn, unseen_set |-> unseen, exc |-> s.exc]
  ELSE IF s.val \notin known_set
  THEN [ret |-> NON_CAST, unseen_set |-> {s.val}, exc |-> "none"]
  ELSE [ret |-> s.val, unseen_set |-> unseen, exc |-> "none"]

\* Variant: self.unseen_set.add(text) is missing.
normal_name_known_unrecorded(unseen, s) ==
  IF s.exc # "none"
  THEN [ret |-> NoReturn, unseen_set |-> unseen, exc |-> s.exc]
  ELSE IF s.val \notin known_set
  THEN [ret |-> NON_CAST, unseen_set |-> unseen, exc |-> "none"]
  ELSE [ret |-> s.val, unseen_set |-> unseen, exc |-> "none"]

\* Lines 874-882 of normal_name, for the outcome s of the synonym lookup:
\* a name not in known_set is recorded and replaced by NON_CAST.
normal_name_known(unseen, s) ==
  IF s.exc # "none"
  THEN [ret |-> NoReturn, unseen_set |-> unseen, exc |-> s.exc]
  ELSE IF s.val \notin known_set
  THEN [ret |-> NON_CAST, unseen_set |-> unseen \cup {s.val}, exc |-> "none"]
  ELSE [ret |-> s.val, unseen_set |-> unseen, exc |-> "none"]

\* Variant: the raw name is recorded, not the cleaned and looked-up one.
normal_name_raw(unseen, text, s) ==
  IF s.exc # "none"
  THEN [ret |-> NoReturn, unseen_set |-> unseen, exc |-> s.exc]
  ELSE IF s.val \notin known_set
  THEN [ret |-> NON_CAST, unseen_set |-> unseen \cup {text}, exc |-> "none"]
  ELSE [ret |-> s.val, unseen_set |-> unseen, exc |-> "none"]

normal_name_raw_recorded(unseen, text, z) ==
  IF z # 0
  THEN [ret |-> zap_dict[z][2], unseen_set |-> unseen, exc |-> "none"]
  ELSE normal_name_raw(
         unseen, text, synonym_lookup(delete_loop[text, 1, Len(delete_list)]))

\* Variant: the phrase found by the zap_dict loop is ignored.
normal_name_zap_ignored(unseen, text, z) ==
  normal_name_known(
    unseen, synonym_lookup(delete_loop[text, 1, Len(delete_list)]))

\* normal_name once the zap_dict loop has found phrase number z (0: none).
normal_name_zapped(unseen, text, z) ==
  IF z # 0
  THEN [ret |-> zap_dict[z][2], unseen_set |-> unseen, exc |-> "none"]
  ELSE normal_name_known(
         unseen, synonym_lookup(delete_loop[text, 1, Len(delete_list)]))

\* Ds9cast.normal_name(self, text), for self.unseen_set = unseen at the call:
\* the returned value, self.unseen_set after the call and the exception
\* raised, if any.
normal_name(unseen, text) == normal_name_zapped(unseen, text, zap_match(text))

\* for name in name_list: normal_s.add(self.normal_name(name))
RECURSIVE normal_list_loop(_, _, _)
RECURSIVE normal_list_add(_, _, _)
normal_list_add(n, name_list, normal_s) ==
  IF n.exc # "none"
  THEN [normal_s |-> normal_s, unseen_set |-> n.unseen_set, exc |-> n.exc]
  ELSE normal_list_loop(n.unseen_set, name_list, normal_s \cup {n.ret})

normal_list_loop(unseen, name_list, normal_s) ==
  IF Len(name_list) = 0
  THEN [normal_s |-> normal_s, unseen_set |-> unseen, exc |-> "none"]
  ELSE normal_list_add(normal_name(unseen, Head(name_list)),
                       Tail(name_list), normal_s)

\* normal_l = list(normal_s); normal_l.sort(); return normal_l
normal_list_return(r) ==
  IF r.exc # "none"
  THEN [ret |-> NoReturn, unseen_set |-> r.unseen_set, exc |-> r.exc]
  ELSE [ret |-> sort(list(r.normal_s)), unseen_set |-> r.unseen_set,
        exc |-> "none"]

\* Variant: the normalised names are collected in a list, duplicates kept.
RECURSIVE normal_names(_)
normal_names(name_list) ==
  IF Len(name_list) = 0 THEN << >>
  ELSE <<normal_name({}, Head(name_list)).ret>> \o normal_names(Tail(name_list))

normal_list_keeps_duplicates(unseen, name_list) ==
  [ret |-> sort(normal_names(name_list)),
   unseen_set |-> normal_list_loop(unseen, name_list, {}).unseen_set,
   exc |-> "none"]

\* Variant: the normalised names are returned as met, neither collected in
\* a set nor sorted.
normal_list_input_order(unseen, name_list) ==
  [ret |-> normal_names(name_list),
   unseen_set |-> normal_list_loop(unseen, name_list, {}).unseen_set,
   exc |-> "none"]

\* Ds9cast.normal_list(self, name_list)
normal_list(unseen, name_list) ==
  normal_list_return(normal_list_loop(unseen, name_list, {}))

\* The style of a pair: 'amp' when it has an '&', else 'slash' when it has
\* a '/', else 'other'.
pair_style(pair) ==
  IF Contains(pair, "&") THEN "amp"
  ELSE IF Contains(pair, "/") THEN "slash"
  ELSE "other"

\* pair_l = [s.strip() for s in re.split('[/&]', pair)]
RECURSIVE split_strip(_)
split_strip(pieces) ==
  IF Len(pieces) = 0 THEN << >>
  ELSE <<strip(Head(pieces))>> \o split_strip(Tail(pieces))

\* Variant: every pair is joined with '/'.
pair_format_slash(style, pair, pair_l) == pair_l[1] \o "/" \o pair_l[2]

\* The formatting at the end of normal_pair: the first two elements of the
\* sorted list joined in the pair's style; the pair itself for style 'other'.
pair_format(style, pair, pair_l) ==
  IF style = "amp" THEN pair_l[1] \o " & " \o pair_l[2]
  ELSE IF style = "slash" THEN pair_l[1] \o "/" \o pair_l[2]
  ELSE pair

\* Variant: pair_l.sort() is missing.
normal_pair_second_unsorted(pair, pair_l, r0, n1) ==
  IF n1.exc # "none"
  THEN [ret |-> NoReturn, unseen_set |-> n1.unseen_set, exc |-> n1.exc]
  ELSE [ret |-> pair_format(pair_style(pair), pair,
                            <<r0, n1.ret>> \o SubSeq(pair_l, 3, Len(pair_l))),
        unseen_set |-> n1.unseen_set, exc |-> "none"]

\* normal_pair from pair_l.sort() on, n1 the outcome of normalising pair_l[1].
normal_pair_second(pair, pair_l, r0, n1) ==
  IF n1.exc # "none"
  THEN [ret |-> NoReturn, unseen_set |-> n1.unseen_set, exc |-> n1.exc]
  ELSE [ret |-> pair_format(pair_style(pair), pair,
                            sort(<<r0, n1.ret>> \o SubSeq(pair_l, 3, Len(pair_l)))),
        unseen_set |-> n1.unseen_set, exc |-> "none"]

\* Variant: pair_l[1] is left as split, not normalised.
normal_pair_first_only(pair, pair_l, n0) ==
  IF n0.exc # "none"
  THEN [ret |-> NoReturn, unseen_set |-> n0.unseen_set, exc |-> n0.exc]
  ELSE IF Len(pair_l) < 2
  THEN [ret |-> NoReturn, unseen_set |-> n0.unseen_set, exc |-> "IndexError"]
  ELSE normal_pair_second(pair, pair_l, n0.ret,
                          [ret |-> pair_l[2], unseen_set |-> n0.unseen_set,
                           exc |-> "none"])

\* normal_pair after pair_l[0] = self.normal_name(pair_l[0]) with outcome n0:
\* pair_l[1] raises IndexError when the pair had no operator.
normal_pair_first(pair, pair_l, n0) ==
  IF n0.exc # "none"
  THEN [ret |-> NoReturn, unseen_set |-> n0.unseen_set, exc |-> n0.exc]
  ELSE IF Len(pair_l) < 2
  THEN [ret |-> NoReturn, unseen_set |-> n0.unseen_set, exc |-> "IndexError"]
  ELSE normal_pair_second(pair, pair_l, n0.ret,
                          normal_name(n0.unseen_set, pair_l[2]))

normal_pair_split(unseen, pair, pair_l) ==
  normal_pair_first(pair, pair_l, normal_name(unseen, pair_l[1]))

\* One engine normalises a sequence of names one after the other: the values
\* returned, in order, and self.unseen_set at the end.
RECURSIVE normal_each_loop(_, _, _)
RECURSIVE normal_each_add(_, _, _)
normal_each_add(n, names, rets) ==
  normal_each_loop(n.unseen_set, names, rets \o <<n.ret>>)

normal_each_loop(unseen, names, rets) ==
  IF Len(names) = 0
  THEN [rets |-> rets, unseen_set |-> unseen]
  ELSE normal_each_add(normal_name(unseen, Head(names)), Tail(names), rets)

\* Ds9cast.normal_pair(self, pair)
normal_pair(unseen, pair) ==
  normal_pair_split(unseen, pair, split_strip(re_split(pair, "")))

\* for pair in pair_list: normal_s.add(self.normal_pair(pair))
RECURSIVE normal_pair_list_loop(_, _, _)
RECURSIVE normal_pair_list_add(_, _, _)
normal_pair_list_add(n, pair_list, normal_s) ==
  IF n.exc # "none"
  THEN [normal_s |-> normal_s, unseen_set |-> n.unseen_set, exc |-> n.exc]
  ELSE normal_pair_list_loop(n.unseen_set, pair_list, normal_s \cup {n.ret})

normal_pair_list_loop(unseen, pair_list, normal_s) ==
  IF Len(pair_list) = 0
  THEN [normal_s |-> normal_s, unseen_set |-> unseen, exc |-> "none"]
  ELSE normal_pair_list_add(normal_pair(unseen, Head(pair_list)),
                            Tail(pair_list), normal_s)

\* normal_l = list(normal_s); normal_l.sort(); return normal_l
normal_pair_list_return(r) ==
  IF r.exc # "none"
  THEN [ret |-> NoReturn, unseen_set |-> r.unseen_set, exc |-> r.exc]
  ELSE [ret |-> sort(list(r.normal_s)), unseen_set |-> r.unseen_set,
        exc |-> "none"]

\* Variant: the normalised pairs are collected in a list, duplicates kept.
RECURSIVE normal_pairs(_)
normal_pairs(pair_list) ==
  IF Len(pair_list) = 0 THEN << >>
  ELSE <<normal_pair({}, Head(pair_list)).ret>> \o normal_pairs(Tail(pair_list))

normal_pair_list_all(r, pair_list) ==
  IF r.exc # "none"
  THEN [ret |-> NoReturn, unseen_set |-> r.unseen_set, exc |-> r.exc]
  ELSE [ret |-> sort(normal_pairs(pair_list)), unseen_set |-> r.unseen_set,
        exc |-> "none"]

normal_pair_list_keeps_duplicates(unseen, pair_list) ==
  normal_pair_list_all(normal_pair_list_loop(unseen, pair_list, {}), pair_list)

\* Ds9cast.normal_pair_list(self, pair_list)
normal_pair_list(unseen, pair_list) ==
  normal_pair_list_return(normal_pair_list_loop(unseen, pair_list, {}))

\* Ds9cast.unseen(self)
unseen(unseen_s) == [ret |-> unseen_s, unseen_set |-> unseen_s, exc |-> "none"]

(***************************************************************************)
(* parse-pages-into-db.py: the relationships of a work, in parse_work      *)
(***************************************************************************)

\* if r.find('&') > -1: style = 'amp'
\* elif r.find('/') > -1: style = 'slash' else: style = 'other'
relationship_style(r) ==
  IF Contains(r, "&") THEN "amp"
  ELSE IF Contains(r, "/") THEN "slash"
  ELSE "other"

\* list(filter(None, pair)): the empty strings are dropped.
RECURSIVE filter_none(_)
filter_none(pair) ==
  IF Len(pair) = 0 THEN << >>
  ELSE IF Head(pair) = "" THEN filter_none(Tail(pair))
  ELSE <<Head(pair)>> \o filter_none(Tail(pair))

\* ' '.join(tween(pair, '&')) for sep = " & ", ''.join(tween(pair, '/'))
\* for sep = "/"; pair is not empty.
RECURSIVE tween_join(_, _)
tween_join(pair, sep) ==
  IF Len(pair) = 1 THEN pair[1]
  ELSE pair[1] \o sep \o tween_join(Tail(pair), sep)

\* The six sets of parse_work before the first relationship.
no_relationships ==
  [relationshipspax |-> {}, relationshipspaxamp |-> {},
   relationshipspaxslash |-> {}, relationshipspair |-> {},
   relationshipspairamp |-> {}, relationshipspairslash |-> {}]

\* The body of the loop from "if len(pair) > 1" on, for the sorted pair of r.
relationship_add(sets, style, pair) ==
  IF Len(pair) <= 1 THEN sets
  ELSE IF style = "amp"
  THEN [sets EXCEPT
          !.relationshipspax = @ \cup {pair[i] : i \in DOMAIN pair},
          !.relationshipspaxamp = @ \cup {pair[i] : i \in DOMAIN pair},
          !.relationshipspairamp = @ \cup {tween_join(pair, " & ")},
          !.relationshipspair = @ \cup {tween_join(pair, " & ")}]
  ELSE IF style = "slash"
  THEN [sets EXCEPT
          !.relationshipspax = @ \cup {pair[i] : i \in DOMAIN pair},
          !.relationshipspaxslash = @ \cup {pair[i] : i \in DOMAIN pair},
          !.relationshipspairslash = @ \cup {tween_join(pair, "/")},
          !.relationshipspair = @ \cup {tween_join(pair, "/")}]
  ELSE [sets EXCEPT
          !.relationshipspax = @ \cup {pair[i] : i \in DOMAIN pair}]

\* r with '(implied)' and '(unrequited)' taken out.
relationship_text(r) == replace(replace(r, "(implied)"), "(unrequited)")

\* One iteration of "for r in relationships", from the two replace calls on.
relationship_step(sets, r) ==
  relationship_add(sets, relationship_style(r),
                   sort(filter_none(split_strip(re_split(r, "")))))

RECURSIVE relationship_loop(_, _)
relationship_loop(sets, relationships) ==
  IF Len(relationships) = 0 THEN sets
  ELSE relationship_loop(
         relationship_step(sets, relationship_text(Head(relationships))),
         Tail(relationships))

\* data[...] = sorted(...) for each set that is not empty; a key that is not
\* set is shown as the empty list.
relationship_data(relationships, sets) ==
  [relationships |-> relationships,
   relationshipspax |-> sort(list(sets.relationshipspax)),
   relationshipspaxamp |-> sort(list(sets.relationshipspaxamp)),
   relationshipspaxslash |-> sort(list(sets.relationshipspaxslash)),
   relationshipspair |-> sort(list(sets.relationshipspair)),
   relationshipspairamp |-> sort(list(sets.relationshipspairamp)),
   relationshipspairslash |-> sort(list(sets.relationshipspairslash))]

\* The relationship fields parse_work gives a work whose
\* <li class="relationships"> items hold the texts found, in that order.
parse_relationships(found) ==
  relationship_data(sort(found), relationship_loop(no_relationships, sort(found)))

(***************************************************************************)
(* Inputs of the calls.                                                    *)
(***************************************************************************)

\* Longest name_list and longest pair_list handed to the engine.
MaxLen == 3
MaxPairs == 2

\* Most Ds9cast instances alive at once.
MaxInstances == 2

\* Most raw names shared out among the workers.
MaxJobs == 3

\* Most relationships of a work.
MaxRelationships == 2

\* Most index pages of a tag.
MaxPages == 3

\* Raw names besides the canonical ones.
SampleNames ==
  { "", " ", "\t ", "?", "(mentioned)", "Mirror Kira Nerys",
    "Totally Unknown Person", "Original Character (background)", "Reader",
    "Dukat", "Gul Dukat", " Odo (mentioned)", "Odo (OC)",
    "Original Character (OC)" }

NameInputs == known_set \cup {NON_CAST} \cup SampleNames

\* The two sides of a relationship: names without an operator character, and
\* names that contain one.
PlainNames == {"Odo", "Kira Nerys", " Dukat", "Totally Unknown Person", ""}
OperatorNames == {"Quark/Rom", "Odo & Worf"}
PairNames == PlainNames \cup OperatorNames
Separators == {"/", " & ", "&"}

PairInputs ==
  {A \o sep \o B : <<A, sep, B>> \in PairNames \X Separators \X PairNames}
    \cup PlainNames

BoundedSeq(S, n) == UNION {[1..k -> S] : k \in 0..n}

ListNames ==
  {"Dukat", "Gul Dukat", "Skrain Dukat", "Kira Nerys", "Totally Unknown Person"}
NameListInputs == BoundedSeq(ListNames, MaxLen)

PairSamples ==
  { "Odo/Kira Nerys", "Kira Nerys/Odo", "Odo & Kira Nerys", "Kira Nerys & Odo",
    "Totally Unknown Person" }
PairListInputs == BoundedSeq(PairSamples, MaxPairs)

\* Raw names that exercise single rows of delete_list and synonym_dict.
TableSamples ==
  { "Edon Shaakar", "Shaakar Edon", "Mirror Worf", "Work", "Keiko O'Brien",
    "Vedek Bariel", "Reader", "Gul Dukat",
    "Elim Garak (one-sided)", "Elim Garak ()", "Jadzia Dax(Implied)",
    " Odo (mentioned)", "Odo (mentioned) (past)", "Odo past (mentioned)" }

\* What a caller that holds several instances hands to them.
InstanceNames == {"Totally Unknown Person", "Reader", "Kira Nerys", "?"}
InstanceLists == BoundedSeq({"Totally Unknown Person", "Kira Nerys"}, 2)
InstancePairs == {"Odo/Reader", "Kira Nerys & ?"}
InstancePairLists == BoundedSeq({"Odo/Reader"}, 1)

\* Relationship texts of works.
RelationshipSamples ==
  { "Odo/Kira Nerys", "Kira Nerys/Odo", "Odo & Kira Nerys", "Quark & Rom",
    "Odo/Quark & Rom", "Odo & Quark/Rom", "Odo", "Odo/", "& Odo",
    "Odo/Kira Nerys (implied)", "Jadzia Dax/Worf/Kira Nerys" }
RelationshipInputs == BoundedSeq(RelationshipSamples, MaxRelationships)

\* collect-pages.py: --rate-limit values and the status codes of a response.
RateLimits == {0, 6}
StatusCodes == {200, 404, 503}

\* The raw names a run shares out among workers.
WorkerNames == {"Totally Unknown Person", "Reader", "Kira Nerys"}

(***************************************************************************)
(* State: the Ds9cast instances and the call the caller made last.         *)
(***************************************************************************)

VARIABLES
  unseen_set,           \* self.unseen_set of every constructed instance
  names_altered_count,  \* Ds9cast.names_altered_count
  op,                   \* method called last, "none" between calls
  inst,                 \* the instance it was called on
  arg,                  \* its argument
  ret,                  \* the value it returned
  exc,                  \* the exception it raised, "none" when it returned
  inner,                \* x when the call is the outer one of
                        \* normal_name(normal_name(x)), else NoReturn
  before,               \* self.unseen_set as it was when the call was made
  jobs,                 \* the raw names shared out among workers, each with
                        \* the value a worker's engine returned for it
  collect               \* collect-pages.py: the variables of its page loop

vars ==
  <<unseen_set, names_altered_count, op, inst, arg, ret, exc, inner, before,
    jobs, collect>>

\* collect-pages.py is not running.
NotCollecting == [pc |-> "idle"]

\* ds9cast = Ds9cast(): one instance, nothing seen yet, no call made.
Init ==
  /\ unseen_set = [self \in {1} |-> {}]
  /\ names_altered_count = 0
  /\ op = "none"
  /\ inst = 0
  /\ arg = ""
  /\ ret = NoReturn
  /\ exc = "none"
  /\ inner = NoReturn
  /\ before = {}
  /\ jobs = << >>
  /\ collect = NotCollecting

\* Variant: unseen_set is one set of the class, shared by the instances.
Outcome_class_level(self, o, a, r) ==
  /\ op' = o
  /\ inst' = self
  /\ arg' = a
  /\ ret' = r.ret
  /\ exc' = r.exc
  /\ unseen_set' = [i \in DOMAIN unseen_set |-> r.unseen_set]
  /\ before' = unseen_set[self]
  /\ UNCHANGED <<names_altered_count, jobs, collect>>

\* The call of method o on self with argument a has the outcome r.
Outcome(self, o, a, r) ==
  /\ op' = o
  /\ inst' = self
  /\ arg' = a
  /\ ret' = r.ret
  /\ exc' = r.exc
  /\ unseen_set' = [unseen_set EXCEPT ![self] = r.unseen_set]
  /\ before' = unseen_set[self]
  /\ UNCHANGED <<names_altered_count, jobs, collect>>

call_normal_name(self, text) ==
  /\ op = "none"
  /\ Outcome(self, "normal_name", text, normal_name(unseen_set[self], text))
  /\ inner' = NoReturn

\* normal_name(normal_name(x)): the value just returned is normalised again.
call_normal_name_again(self) ==
  /\ op = "normal_name"
  /\ exc = "none"
  /\ inst = self
  /\ Outcome(self, "normal_name", ret, normal_name(unseen_set[self], ret))
  /\ inner' = arg

call_normal_list(self, name_list) ==
  /\ op = "none"
  /\ Outcome(self, "normal_list", name_list,
             normal_list(unseen_set[self], name_list))
  /\ inner' = NoReturn

call_normal_pair(self, pair) ==
  /\ op = "none"
  /\ Outcome(self, "normal_pair", pair, normal_pair(unseen_set[self], pair))
  /\ inner' = NoReturn

call_normal_pair_list(self, pair_list) ==
  /\ op = "none"
  /\ Outcome(self, "normal_pair_list", pair_list,
             normal_pair_list(unseen_set[self], pair_list))
  /\ inner' = NoReturn

call_unseen(self) ==
  /\ op = "none"
  /\ Outcome(self, "unseen", "", unseen(unseen_set[self]))
  /\ inner' = NoReturn

\* Ds9cast(): __init__ gives the new instance a set of its own.
Ds9cast_init(self) ==
  /\ op = "none"
  /\ self \notin DOMAIN unseen_set
  /\ Cardinality(DOMAIN unseen_set) < MaxInstances
  /\ unseen_set' = [i \in DOMAIN unseen_set \cup {self} |->
                      IF i = self THEN {} ELSE unseen_set[i]]
  /\ op' = "__init__"
  /\ inst' = self
  /\ arg' = ""
  /\ ret' = NoReturn
  /\ exc' = "none"
  /\ inner' = NoReturn
  /\ before' = {}
  /\ UNCHANGED <<names_altered_count, jobs, collect>>

\* Worker self takes job i, any one not done yet, and normalises its name on
\* its own engine; r is the outcome of that normal_name call.
job_done(self, i, r) ==
  /\ op' = "normal_name"
  /\ inst' = self
  /\ arg' = jobs[i].text
  /\ ret' = r.ret
  /\ exc' = r.exc
  /\ unseen_set' = [unseen_set EXCEPT ![self] = r.unseen_set]
  /\ before' = unseen_set[self]
  /\ inner' = NoReturn
  /\ jobs' = [j \in DOMAIN jobs |->
               IF j = i THEN [text |-> jobs[i].text, ret |-> r.ret]
               ELSE jobs[j]]
  /\ UNCHANGED <<names_altered_count, collect>>

worker_normal_name(self, i) ==
  /\ op = "none"
  /\ jobs[i].ret = NoReturn
  /\ job_done(self, i, normal_name(unseen_set[self], jobs[i].text))

\* parse_work(work), as far as the relationships go (lines 481-571).
call_parse_work(found) ==
  /\ op = "none"
  /\ op' = "parse_work"
  /\ inst' = 0
  /\ arg' = found
  /\ ret' = parse_relationships(found)
  /\ exc' = "none"
  /\ inner' = NoReturn
  /\ before' = {}
  /\ UNCHANGED <<unseen_set, names_altered_count, jobs, collect>>

\* The names of the two files of a page: file_name_base ends in
\* str(page_num).zfill(4), which differs for different page numbers, and the
\* rest of it is the same for the whole run.
file_name_html(page_num) == <<page_num, "-index.html">>
file_name_meta(page_num) == <<page_num, "-meta.yaml">>

\* with open(name, 'w') as f: f.write(content)
write_file(files, name, content) ==
  [n \in DOMAIN files \cup {name} |-> IF n = name THEN content ELSE files[n]]

\* What no step of collect-pages.py changes.
engine_vars ==
  <<unseen_set, names_altered_count, op, inst, arg, ret, exc, inner, before,
    jobs>>

\* rate_limit(args.rate_limit) at the head of an iteration.
collect_rate_limit ==
  /\ collect.pc = "rate_limit"
  /\ collect' = [collect EXCEPT
                   !.pc = "get",
                   !.events = IF collect.rate_limit > 0
                              THEN Append(@, [kind |-> "sleep"])
                              ELSE @]
  /\ UNCHANGED engine_vars

\* Variant: a page whose status is not 200 is asked for again.
collect_get_retry(status_code) ==
  /\ collect.pc = "get"
  /\ collect' = [collect EXCEPT
                   !.pc = IF status_code = 200 THEN "save_html"
                          ELSE "rate_limit",
                   !.status_code = status_code,
                   !.page = IF status_code = 200 THEN "page text" ELSE "",
                   !.events = Append(@, [kind |-> "get",
                                         page_num |-> collect.page_num,
                                         status_code |-> status_code])]
  /\ UNCHANGED engine_vars

\* r = requests.get(url, headers=http_headers) returns a response:
\* page = r.text for status 200, else ''.
collect_get(status_code) ==
  /\ collect.pc = "get"
  /\ collect' = [collect EXCEPT
                   !.pc = "save_html",
                   !.status_code = status_code,
                   !.page = IF status_code = 200 THEN "page text" ELSE "",
                   !.events = Append(@, [kind |-> "get",
                                         page_num |-> collect.page_num,
                                         status_code |-> status_code])]
  /\ UNCHANGED engine_vars

\* requests.get raises (no connection, timeout): nothing catches it, the
\* program ends.
collect_get_raises ==
  /\ collect.pc = "get"
  /\ collect' = [collect EXCEPT
                   !.pc = "raised",
                   !.events = Append(@, [kind |-> "get",
                                         page_num |-> collect.page_num,
                                         status_code |-> 0])]
  /\ UNCHANGED engine_vars

\* Save the web page.
collect_save_html ==
  /\ collect.pc = "save_html"
  /\ collect' = [collect EXCEPT
                   !.pc = "save_meta",
                   !.files = write_file(@, file_name_html(collect.page_num),
                                        collect.page),
                   !.events = Append(@, [kind |-> "write",
                                         name |-> file_name_html(collect.page_num)])]
  /\ UNCHANGED engine_vars

\* Save the information about the web page; then the next page_num of
\* range(1, highest_pagenav+1), if there is one.
collect_save_meta ==
  /\ collect.pc = "save_meta"
  /\ collect' = [collect EXCEPT
                   !.pc = IF collect.page_num + 1 > collect.highest_pagenav
                          THEN "done" ELSE "rate_limit",
                   !.page_num = @ + 1,
                   !.files = write_file(@, file_name_meta(collect.page_num),
                                        [url |-> collect.page_num,
                                         status_code |-> collect.status_code,
                                         rate_limit |-> collect.rate_limit]),
                   !.events = Append(@, [kind |-> "write",
                                         name |-> file_name_meta(collect.page_num)])]
  /\ UNCHANGED engine_vars

\* The caller takes the returned value and goes on to its next call.  A
\* raised exception is caught nowhere: the program ends with it.
next_call ==
  /\ op # "none"
  /\ exc = "none"
  /\ op' = "none"
  /\ inst' = 0
  /\ arg' = ""
  /\ ret' = NoReturn
  /\ inner' = NoReturn
  /\ before' = {}
  /\ UNCHANGED <<unseen_set, names_altered_count, exc, jobs, collect>>

Next ==
  \/ \E self \in DOMAIN unseen_set, text \in NameInputs :
       call_normal_name(self, text)
  \/ \E self \in DOMAIN unseen_set : call_normal_name_again(self)
  \/ \E self \in DOMAIN unseen_set, name_list \in NameListInputs :
       call_normal_list(self, name_list)
  \/ \E self \in DOMAIN unseen_set, pair \in PairInputs :
       call_normal_pair(self, pair)
  \/ \E self \in DOMAIN unseen_set, pair_list \in PairListInputs :
       call_normal_pair_list(self, pair_list)
  \/ \E self \in DOMAIN unseen_set : call_unseen(self)
  \/ next_call

Spec == Init /\ [][Next]_vars

\* The run over the names of TableSamples only.
NextTables ==
  \/ \E self \in DOMAIN unseen_set, text \in TableSamples :
       call_normal_name(self, text)
  \/ \E self \in DOMAIN unseen_set : call_unseen(self)
  \/ next_call

SpecTables == Init /\ [][NextTables]_vars

\* A caller that constructs further instances and calls any of them.
NextInstances ==
  \/ Ds9cast_init(Cardinality(DOMAIN unseen_set) + 1)
  \/ \E self \in DOMAIN unseen_set, text \in InstanceNames :
       call_normal_name(self, text)
  \/ \E self \in DOMAIN unseen_set, name_list \in InstanceLists :
       call_normal_list(self, name_list)
  \/ \E self \in DOMAIN unseen_set, pair \in InstancePairs :
       call_normal_pair(self, pair)
  \/ \E self \in DOMAIN unseen_set, pair_list \in InstancePairLists :
       call_normal_pair_list(self, pair_list)
  \/ \E self \in DOMAIN unseen_set : call_unseen(self)
  \/ next_call

SpecInstances == Init /\ [][NextInstances]_vars

\* A run that shares a sequence of raw names out among workers, each worker
\* with a new engine of its own; the jobs are taken in any order.
InitWorkers ==
  /\ unseen_set = [self \in 1..MaxInstances |-> {}]
  /\ jobs \in {[i \in DOMAIN names |-> [text |-> names[i], ret |-> NoReturn]] :
                names \in BoundedSeq(WorkerNames, MaxJobs)}
  /\ names_altered_count = 0
  /\ op = "none"
  /\ inst = 0
  /\ arg = ""
  /\ ret = NoReturn
  /\ exc = "none"
  /\ inner = NoReturn
  /\ before = {}
  /\ collect = NotCollecting

NextWorkers ==
  \/ \E self \in DOMAIN unseen_set, i \in DOMAIN jobs :
       worker_normal_name(self, i)
  \/ next_call

SpecWorkers == InitWorkers /\ [][NextWorkers]_vars

\* parse-pages-into-db.py: parse_work is called for one work after the other;
\* the program has no Ds9cast.
InitParse ==
  /\ unseen_set = << >>
  /\ names_altered_count = 0
  /\ op = "none"
  /\ inst = 0
  /\ arg = ""
  /\ ret = NoReturn
  /\ exc = "none"
  /\ inner = NoReturn
  /\ before = {}
  /\ jobs = << >>
  /\ collect = NotCollecting

NextParse ==
  \/ \E found \in RelationshipInputs : call_parse_work(found)
  \/ next_call

SpecParse == InitParse /\ [][NextParse]_vars

\* collect-pages.py at the head of its page loop: the first page has been
\* read and highest_pagenav, at least 1, found in it.
InitCollect ==
  /\ collect \in {[pc |-> "rate_limit", highest_pagenav |-> h,
                    rate_limit |-> r, page_num |-> 1, status_code |-> 0,
                    page |-> "", files |-> << >>, events |-> << >>] :
                   h \in 1..MaxPages, r \in RateLimits}
  /\ unseen_set = << >>
  /\ names_altered_count = 0
  /\ op = "none"
  /\ inst = 0
  /\ arg = ""
  /\ ret = NoReturn
  /\ exc = "none"
  /\ inner = NoReturn
  /\ before = {}
  /\ jobs = << >>

NextCollect ==
  \/ collect_rate_limit
  \/ \E status_code \in StatusCodes : collect_get(status_code)
  \/ collect_get_raises
  \/ collect_save_html
  \/ collect_save_meta

SpecCollect == InitCollect /\ [][NextCollect]_vars

(***************************************************************************)
(* Properties.                                                             *)
(***************************************************************************)

\* The canonical names: the known set and the sentinel.
Canonical == known_set \cup {NON_CAST}

\* Number of occurrences of the character c in s.
RECURSIVE CountChar(_, _)
CountChar(s, c) ==
  IF Len(s) = 0 THEN 0
  ELSE (IF Char(s, 1) = c THEN 1 ELSE 0) + CountChar(SubSeq(s, 2, Len(s)), c)

\* The smaller and the larger of two names in str order.
MinName(x, y) == IF StrLess(y, x) THEN y ELSE x
MaxName(x, y) == IF StrLess(y, x) THEN x ELSE y

\* C1: whatever calls came before, every value normal_name returns is a member
\* of known_set or NON_CAST.
C1_ReturnsCanonical ==
  (op = "normal_name" /\ exc = "none") => ret \in known_set \cup {NON_CAST}

\* A synonym of a known name is normalised on an engine that has already
\* recorded unseen names.
C1_Witness ==
  /\ op = "normal_name"
  /\ arg = "Gul Dukat"
  /\ ret = "Skrain Dukat"
  /\ unseen_set[inst] # {}

\* C2: normal_name raises for no input string and returns a value; for the
\* empty string it returns NON_CAST and records the empty string as unseen.
C2_NeverRaises ==
  op = "normal_name" =>
    /\ exc = "none"
    /\ ret # NoReturn
    /\ arg = "" => (ret = NON_CAST /\ "" \in unseen_set[inst])

C2_Witness ==
  /\ op = "normal_name"
  /\ arg = ""
  /\ ret = NON_CAST
  /\ "" \in unseen_set[inst]

\* C3: normal_name("Mirror Kira Nerys") returns "Mirror Kira Nerys", a member
\* of known_set, and not "Kira Nerys".
C3_MirrorKiraNerysKept ==
  (op = "normal_name" /\ arg = "Mirror Kira Nerys") =>
    (ret = "Mirror Kira Nerys" /\ ret \in known_set)

\* C4: normal_name returns every member of known_set, and NON_CAST, unchanged.
C4_CanonicalUnchanged ==
  (op = "normal_name" /\ arg \in Canonical) => (exc = "none" /\ ret = arg)

\* C5: for x in known_set or x = NON_CAST, normal_name(normal_name(x)) equals
\* normal_name(x).  In the outer call arg is normal_name(x).
C5_Idempotent ==
  (op = "normal_name" /\ inner \in Canonical) => (exc = "none" /\ ret = arg)

\* x is the one canonical name that normal_name changes.
C5_Witness ==
  /\ op = "normal_name"
  /\ inner = "Zarale"
  /\ arg = "Gul Zarale"
  /\ ret = "Gul Zarale"

\* normal_pair(B sep A) returns what the call normal_pair(A sep B) in the
\* state returned, for every way to read arg as A sep B with A, B in names.
PairSymmetry(names) ==
  \A A \in names, B \in names, sep \in {"/", " & "} :
    (op = "normal_pair" /\ arg = A \o sep \o B) =>
      /\ exc = "none"
      /\ normal_pair(unseen_set[inst], B \o sep \o A).exc = "none"
      /\ normal_pair(unseen_set[inst], B \o sep \o A).ret = ret

C7_OperatorPreserved ==
  (op = "normal_pair" /\ CountChar(arg, "&") + CountChar(arg, "/") = 1) =>
    /\ exc = "none"
    /\ CountChar(ret, "&") = CountChar(arg, "&")
    /\ CountChar(ret, "/") = CountChar(arg, "/")

C7_Witness ==
  /\ op = "normal_pair"
  /\ arg = "Odo&Kira Nerys"
  /\ ret = "Kira Nerys & Odo"

\* C8: for an input with neither '&' nor '/' normal_pair raises nothing and
\* returns the input, at most stripped of surrounding whitespace.
C8_NoOperatorReturned ==
  (op = "normal_pair" /\ ~Contains(arg, "&") /\ ~Contains(arg, "/")) =>
    (exc = "none" /\ ret \in {arg, strip(arg)})

\* C9: for L op R with one operator, normal_pair returns normal_name(strip(L))
\* and normal_name(strip(R)) in ascending order, joined by " & " for '&' and
\* by "/" for '/'.
C9_PairOfNormalNames ==
  \A L \in PlainNames, R \in PlainNames, sep \in Separators :
    (op = "normal_pair" /\ arg = L \o sep \o R) =>
      LET x == normal_name({}, strip(L)).ret
          y == normal_name({}, strip(R)).ret
      IN  /\ exc = "none"
          /\ ret = MinName(x, y)
                     \o (IF Contains(sep, "&") THEN " & " ELSE "/")
                     \o MaxName(x, y)

C9_Witness ==
  /\ op = "normal_pair"
  /\ arg = " Dukat/Odo"
  /\ ret = "Odo/Skrain Dukat"

\* C10: normal_list returns a strictly ascending sequence whose elements are
\* exactly the normal_name values of the input's elements; the three Dukat
\* variants give <<"Skrain Dukat">> and the empty list gives the empty list.
C10_SortedDistinctNormalNames ==
  op = "normal_list" =>
    /\ exc = "none"
    /\ \A i \in 1..(Len(ret) - 1) : StrLess(ret[i], ret[i + 1])
    /\ {ret[i] : i \in 1..Len(ret)}
         = {normal_name({}, arg[i]).ret : i \in 1..Len(arg)}
    /\ arg = <<"Dukat", "Gul Dukat", "Skrain Dukat">> => ret = <<"Skrain Dukat">>
    /\ arg = << >> => ret = << >>

C10_Witness ==
  /\ op = "normal_list"
  /\ arg = <<"Dukat", "Gul Dukat", "Skrain Dukat">>
  /\ ret = <<"Skrain Dukat">>

\* The elements of a sequence, and the one sequence that lists a set without
\* repetition in ascending order.
Elements(seq) == {seq[i] : i \in DOMAIN seq}
Ascending(S) == sort(list(S))

\* C11: normal_list does not depend on the order or the multiplicity of its
\* input: the call returns, and leaves in unseen_set, exactly what the call
\* on the ascending repetition-free list of the same names would have from
\* the same unseen_set; so any two lists of the same names agree.
C11_OrderMultiplicityIndependent ==
  op = "normal_list" =>
    normal_list(before, Ascending(Elements(arg)))
      = [ret |-> ret, unseen_set |-> unseen_set[inst], exc |-> exc]

C11_Witness ==
  /\ op = "normal_list"
  /\ arg = <<"Totally Unknown Person", "Dukat", "Totally Unknown Person">>
  /\ ret = <<"Skrain Dukat", NON_CAST>>
  /\ before = {}
  /\ unseen_set[inst] = {"Totally Unknown Person"}

\* p is "A/B" and q is "B/A" for operator-free A and B.
SwappedSlash(p, q) ==
  \E A, B \in PlainNames : p = A \o "/" \o B /\ q = B \o "/" \o A

\* p is "A/B" and q is "A & B" for operator-free A and B.
SlashAndAmp(p, q) ==
  \E A, B \in PlainNames : p = A \o "/" \o B /\ q = A \o " & " \o B

\* What normal_pair returns for each element of a list of pairs.
PairOutputs(pair_list) ==
  [i \in DOMAIN pair_list |-> normal_pair({}, pair_list[i]).ret]

\* C12: for a list of pairs that each have an operator, normal_pair_list
\* returns the normal_pair results of its elements without repetition in
\* strictly ascending order; "A/B" and "B/A" give one and the same entry,
\* "A/B" and "A & B" give two different entries.
C12_PairListOf(out) ==
  /\ exc = "none"
  /\ \A i, j \in DOMAIN ret : i < j => StrLess(ret[i], ret[j])
  /\ Elements(ret) = Elements(out)
  /\ \A i, j \in DOMAIN arg :
       /\ SwappedSlash(arg[i], arg[j]) =>
            Cardinality({k \in DOMAIN ret : ret[k] \in {out[i], out[j]}}) = 1
       /\ SlashAndAmp(arg[i], arg[j]) =>
            Cardinality({k \in DOMAIN ret : ret[k] \in {out[i], out[j]}}) = 2

C12_PairListSortedDistinct ==
  (op = "normal_pair_list"
     /\ \A i \in DOMAIN arg : pair_style(arg[i]) # "other")
    => C12_PairListOf(PairOutputs(arg))

C12_Witness ==
  /\ op = "normal_pair_list"
  /\ arg = <<"Odo/Kira Nerys", "Kira Nerys/Odo">>
  /\ ret = <<"Kira Nerys/Odo">>

\* The zap_dict entries whose phrase occurs in a text.
ZapHits(text) == {i \in DOMAIN zap_dict : Contains(text, zap_dict[i][1])}
FirstHit(hits) == CHOOSE i \in hits : \A j \in hits : i <= j

\* C13: when a zap_dict phrase occurs anywhere in the raw name, normal_name
\* returns the value of the first such phrase in table order and does nothing
\* else: no deletion, synonym or known_set step acts, so unseen_set is as it
\* was ("Original Character (background)" gives NON_CAST).
C13_ZapOf(hits) ==
  hits # {} =>
    /\ exc = "none"
    /\ ret = zap_dict[FirstHit(hits)][2]
    /\ unseen_set[inst] = before

C13_OverridePrecedence ==
  /\ op = "normal_name" => C13_ZapOf(ZapHits(arg))
  /\ (op = "normal_name" /\ arg = "Original Character (background)")
       => ret = NON_CAST

C13_Witness ==
  /\ op = "normal_name"
  /\ arg = "Original Character (background)"
  /\ ret = NON_CAST
  /\ "Original Character" \notin unseen_set[inst]
  /\ "Totally Unknown Person" \in before

\* A text no table touches: no zap_dict phrase and no delete_list phrase in
\* it, no whitespace around it, not a synonym_dict key, not in known_set.
Unmatched(text) ==
  /\ ZapHits(text) = {}
  /\ delete_loop[text, 1, Len(delete_list)] = text
  /\ text \notin DOMAIN synonym_dict
  /\ text \notin known_set

\* C14: unseen_set is a set: normal_name of a text no table touches and
\* known_set does not have (e.g. "Totally Unknown Person") returns NON_CAST
\* and leaves the text in unseen_set once, so the set grows by one at the
\* first submission and by nothing at the following ones; unseen() returns
\* that set.
C14_UnseenOnce ==
  /\ (op = "normal_name" /\ Unmatched(arg)) =>
       /\ ret = NON_CAST
       /\ unseen_set[inst] = before \cup {arg}
       /\ Cardinality(unseen_set[inst])
            = Cardinality(before) + (IF arg \in before THEN 0 ELSE 1)
  /\ op = "unseen" => ret = unseen_set[inst]

C14_Witness ==
  /\ op = "normal_name"
  /\ arg = "Totally Unknown Person"
  /\ Unmatched(arg)
  /\ arg \in before
  /\ Cardinality(unseen_set[inst]) = Cardinality(before)

\* C15: unseen_set only grows: every step leaves each instance's unseen_set
\* a superset of what it was, and a call of unseen() leaves it as it was.
C15_AppendOnly ==
  [][/\ \A self \in DOMAIN unseen_set : unseen_set[self] \subseteq unseen_set'[self]
     /\ op' = "unseen" => unseen_set' = unseen_set]_vars

C15_Witness ==
  /\ op = "normal_name"
  /\ before = {"Totally Unknown Person"}
  /\ unseen_set[inst] = {"Totally Unknown Person", "?"}

\* C16: what normal_name returns depends on its argument only: whatever
\* unseen_set held when the call was made, the call returned (or raised)
\* what the same call returns on an instance that has seen nothing.
C16_SameAs(fresh) == ret = fresh.ret /\ exc = fresh.exc

C16_HistoryIndependent ==
  op = "normal_name" => C16_SameAs(normal_name({}, arg))

C16_Witness ==
  /\ op = "normal_name"
  /\ arg = "?"
  /\ before = {"?", "Totally Unknown Person"}
  /\ ret = NON_CAST

\* The string normal_name hands to the synonym lookup.
Cleaned(text) == delete_loop[text, 1, Len(delete_list)]

\* C17: whatever a call of normal_name adds to unseen_set is the cleaned
\* name, which no table matched (no zap_dict phrase in the raw name, the
\* cleaned name not a synonym_dict key) and known_set does not have; a name
\* the tables resolve to NON_CAST, like "Reader", adds nothing.
C17_AddedBy(text, added) ==
  /\ \A u \in added :
       /\ ZapHits(text) = {}
       /\ u = Cleaned(text)
       /\ u \notin DOMAIN synonym_dict
       /\ u \notin known_set
  /\ text = "Reader" => added = {}

C17_UnseenMatchedNoTable ==
  op = "normal_name" => C17_AddedBy(arg, unseen_set[inst] \ before)

\* C18: every value of synonym_dict is in known_set or is NON_CAST, so a raw
\* name whose cleaned form is a synonym_dict key is normalised to the value
\* the table maps it to.
C18_MappedTo(key) ==
  key \in DOMAIN synonym_dict =>
    /\ synonym_dict[key] \in Canonical
    /\ ret = synonym_dict[key]

C18_SynonymValuesCanonical ==
  (op = "normal_name" /\ ZapHits(arg) = {}) => C18_MappedTo(Cleaned(arg))

\* C19: for a raw name without a zap_dict phrase, the string handed to the
\* synonym lookup holds no delete_list phrase and has no whitespace at
\* either end.
C19_Clean(text) ==
  /\ \A i \in DOMAIN delete_list : ~Contains(text, delete_list[i])
  /\ strip(text) = text

C19_NoDeletionPhraseLeft ==
  (op = "normal_name" /\ ZapHits(arg) = {}) => C19_Clean(Cleaned(arg))

\* C20: unseen_set belongs to one instance: a new instance starts with an
\* empty set, and a step changes no unseen_set but that of the instance the
\* call was made on.
C20_PerInstance ==
  [][/\ \A self \in DOMAIN unseen_set' \ DOMAIN unseen_set :
          unseen_set'[self] = {}
     /\ \A self \in DOMAIN unseen_set :
          self # inst' => unseen_set'[self] = unseen_set[self]]_vars

C20_Witness ==
  /\ 2 \in DOMAIN unseen_set
  /\ op = "normal_name"
  /\ inst = 2
  /\ unseen_set[1] = {"Totally Unknown Person"}
  /\ before = {}
  /\ unseen_set[2] = {"?"}

\* C21: names_altered_count counts the names altered: a call of normal_name
\* raises it by one when the value returned differs from the raw name and
\* leaves it as it was otherwise.
C21_AlterationsCounted ==
  [][(op' = "normal_name" /\ exc' = "none") =>
       names_altered_count'
         = names_altered_count + (IF ret' # arg' THEN 1 ELSE 0)]_vars

\* C22: when several zap_dict phrases occur in the raw name, the zap_dict
\* loop stops at the one that comes first in the table, wherever in the name
\* the phrases stand, and normal_name returns the value of that one.
C22_FirstOf(hits) ==
  Cardinality(hits) > 1 =>
    /\ zap_match(arg) = FirstHit(hits)
    /\ ret = zap_dict[FirstHit(hits)][2]

C22_FirstMatchWins == op = "normal_name" => C22_FirstOf(ZapHits(arg))

C22_Witness ==
  /\ op = "normal_name"
  /\ arg = "Original Character (OC)"
  /\ ZapHits(arg) = {1, 2, 3}
  /\ zap_match(arg) = 1
  /\ ret = NON_CAST

\* C23: a call of normal_name changes unseen_set only when the name it has
\* after deletion and synonym lookup is not in known_set, and then adds that
\* very string, not the raw name; a call that returns through zap_dict or
\* returns a member of known_set leaves unseen_set as it was.
C23_FrameOf(name) ==
  /\ unseen_set[inst]
       = IF ZapHits(arg) # {} \/ name \in known_set
         THEN before
         ELSE before \cup {name}
  /\ ret \in known_set => unseen_set[inst] = before

C23_UnseenFrame ==
  op = "normal_name" => C23_FrameOf(synonym_lookup(Cleaned(arg)).val)

C23_Witness ==
  /\ op = "normal_name"
  /\ arg = "(mentioned)"
  /\ before = {"Totally Unknown Person"}
  /\ unseen_set[inst] = {"Totally Unknown Person", ""}

\* C24: a call of normal_pair that raises leaves unseen_set as it was when
\* the call was made.
C24_PairAtomic ==
  (op = "normal_pair" /\ exc # "none") => unseen_set[inst] = before

\* text is a \o rest.
StartsWith(text, a) == Len(a) <= Len(text) /\ SubSeq(text, 1, Len(a)) = a

\* text is two names of Canonical joined by "/" or by " & ".
CanonicalPair(text) ==
  \E a \in Canonical, sep \in {"/", " & "} :
    /\ StartsWith(text, a \o sep)
    /\ SubSeq(text, Len(a \o sep) + 1, Len(text)) \in Canonical

\* C25: for a pair with at least one operator, normal_pair returns two names
\* that are each in known_set or NON_CAST, joined by the operator; no part
\* of the raw pair is returned as it was.
C25_BothNamesCanonical ==
  (op = "normal_pair" /\ pair_style(arg) # "other") =>
    /\ exc = "none"
    /\ CanonicalPair(ret)

\* The other procedure: every delete_list phrase is removed in table order
\* with no strip in between (by halves, as delete_loop), and the whitespace
\* is stripped once at the end.
replace_loop[text \in STRING, lo \in 1..Len(delete_list), hi \in 1..Len(delete_list)] ==
  IF lo = hi
  THEN replace(text, delete_list[lo])
  ELSE LET mid == (lo + hi) \div 2
       IN  replace_loop[replace_loop[text, lo, mid], mid + 1, hi]

StripOnce(text) == strip(replace_loop[text, 1, Len(delete_list)])

\* C26: for a raw name that reaches the deletion loop, stripping after each
\* deletion (as the loop of normal_name does) and stripping once after all
\* deletions give the same string.
C26_StripOnceSame ==
  (op = "normal_name" /\ ZapHits(arg) = {}) => Cleaned(arg) = StripOnce(arg)

\* C27: in every reachable state no instance's unseen_set holds a member of
\* known_set.
C27_UnseenKnownDisjoint ==
  \A self \in DOMAIN unseen_set : unseen_set[self] \cap known_set = {}

C27_Witness ==
  /\ op = "normal_list"
  /\ arg = <<"Kira Nerys", "Totally Unknown Person", "Dukat">>
  /\ ret = <<"Kira Nerys", "Skrain Dukat", NON_CAST>>
  /\ unseen_set[inst] = {"Totally Unknown Person"}

\* The raw names of the jobs, in order.
JobNames == [i \in DOMAIN jobs |-> jobs[i].text]
AllJobsDone == Len(jobs) > 0 /\ \A i \in DOMAIN jobs : jobs[i].ret # NoReturn

\* C28: once the workers, each with an engine of its own, have between them
\* normalised every name of the sequence, in whatever order and however
\* shared out, the union of their unseen_sets is the unseen_set one engine
\* has after normalising the whole sequence in order, and every name got
\* the value that one engine returns for it.
C28_SameAs(one) ==
  /\ UNION {unseen_set[self] : self \in DOMAIN unseen_set} = one.unseen_set
  /\ \A i \in DOMAIN jobs : jobs[i].ret = one.rets[i]

C28_WorkersDecomposable ==
  AllJobsDone => C28_SameAs(normal_each_loop({}, JobNames, << >>))

C28_Witness ==
  /\ AllJobsDone
  /\ JobNames = <<"Totally Unknown Person", "Reader", "Totally Unknown Person">>
  /\ unseen_set[1] = {"Totally Unknown Person"}
  /\ unseen_set[2] = {NON_CAST, "Totally Unknown Person"}
  /\ op = "normal_name"
  /\ inst = 1

\* The operator character that stands first in a text, "" when it has none.
FirstOperator(text) ==
  IF \A i \in 1..Len(text) : Char(text, i) \notin {"/", "&"} THEN ""
  ELSE Char(text, CHOOSE i \in 1..Len(text) :
                    /\ Char(text, i) \in {"/", "&"}
                    /\ \A j \in 1..(i - 1) : Char(text, j) \notin {"/", "&"})

\* C29: the first '&' or '/' of a relationship gives its type, also when the
\* other operator follows: a work whose one relationship begins with '/' has
\* nothing in its amp fields, one whose relationship begins with '&' has
\* nothing in its slash fields.
C29_OwnType(first) ==
  /\ first = "/" =>
       ret.relationshipspairamp = << >> /\ ret.relationshipspaxamp = << >>
  /\ first = "&" =>
       ret.relationshipspairslash = << >> /\ ret.relationshipspaxslash = << >>

C29_FirstOperatorGivesType ==
  (op = "parse_work" /\ Len(arg) = 1) => C29_OwnType(FirstOperator(arg[1]))

\* The GETs made so far, in order, and how often a file was written.
IsGet(e) == e.kind = "get"
Gets == SelectSeq(collect.events, IsGet)
Writes(name) ==
  Cardinality({i \in DOMAIN collect.events :
                 collect.events[i] = [kind |-> "write", name |-> name]})

\* C30: the page loop asks for pages 1, 2, ... in that order, each once;
\* with a rate limit above 0 the wait stands right before every GET; every
\* page whose iteration is over has its HTML file and its metadata file,
\* each written once, the metadata with the status code of the response and
\* the HTML file empty when that status is not 200; a status other than 200
\* does not end the run, and a run that is done has asked for every page up
\* to highest_pagenav.
C30_PageLoop ==
  collect.pc # "idle" =>
    /\ \A i \in DOMAIN Gets : Gets[i].page_num = i
    /\ \A i \in DOMAIN collect.events :
         (IsGet(collect.events[i]) /\ collect.rate_limit > 0) =>
           i > 1 /\ collect.events[i - 1] = [kind |-> "sleep"]
    /\ \A p \in 1..(collect.page_num - 1) :
         /\ Writes(file_name_html(p)) = 1
         /\ Writes(file_name_meta(p)) = 1
         /\ collect.files[file_name_meta(p)].status_code = Gets[p].status_code
         /\ collect.files[file_name_html(p)]
              = IF Gets[p].status_code = 200 THEN "page text" ELSE ""
    /\ collect.pc = "raised" => Gets[Len(Gets)].status_code = 0
    /\ collect.pc = "done" =>
         /\ Len(Gets) = collect.highest_pagenav
         /\ collect.page_num = collect.highest_pagenav + 1

C30_Witness ==
  /\ collect.pc = "done"
  /\ collect.highest_pagenav = 2
  /\ collect.rate_limit = 6
  /\ collect.files[file_name_html(1)] = ""
  /\ collect.files[file_name_meta(1)].status_code = 404
  /\ collect.files[file_name_html(2)] = "page text"
  /\ Len(Gets) = 2

====
